---------------------------- MODULE Spec2Model ----------------------------
(***************************************************************************)
(* Model of the AI composer service of producify-pro (lib/ai-composer,     *)
(* whose text is in src/README.md from line 64 on): composeWithAI and the   *)
(* helpers it drives.                                                       *)
(*                                                                          *)
(* Numbers.  Every JSON / MIDI number (seconds, pitch, velocity) is kept    *)
(* as an integer count of tenths: 0.5 s is 5, velocity 0.8 is 8, pitch 60   *)
(* is 600, pitch 60.5 is 605.  A time string is a sequence of one-character *)
(* strings.                                                                 *)
(***************************************************************************)
EXTENDS Integers, Sequences, FiniteSets, TLC

(***************************************************************************)
(* Bounds of the model.                                                     *)
(***************************************************************************)
MaxSections == 2

\* compose requests made for one job
MaxRequests == 2

\* sections the compose form holds
MaxFormSections == 2

\* notes a summarised track holds
MaxTrackNotes == 3

(***************************************************************************)
(* JSON values as the parser sees them: a type tag and an integer payload   *)
(* (tenths for a number, the length for a string).                          *)
(***************************************************************************)
Num(n) == [t |-> "num", v |-> n]
Str(n) == [t |-> "str", v |-> n]
Absent == [t |-> "absent", v |-> 0]
Null == [t |-> "null", v |-> 0]

\* JavaScript truthiness, as used by `x || default`.
Truthy(j) ==
  \/ j.t = "num" /\ j.v # 0
  \/ j.t = "str" /\ j.v # 0

\* typeof x === 'number'
IsNumber(j) == j.t = "num"

(***************************************************************************)
(* Documents: a sequence of tracks; a track has a name and its notes.       *)
(***************************************************************************)
Note(m, t, d, v) == [midi |-> m, time |-> t, duration |-> d, velocity |-> v]
Track(n, ns) == [name |-> n, notes |-> ns]

addNote(track, note) == [track EXCEPT !.notes = Append(@, note)]

addTrack_prepends(midi, track) == <<track>> \o midi

addTrack(midi, track) == Append(midi, track)

Max(a, b) == IF a >= b THEN a ELSE b

RECURSIVE NotesEnd(_)
NotesEnd(notes) ==
  IF notes = <<>> THEN 0
  ELSE Max(Head(notes).time + Head(notes).duration.v, NotesEnd(Tail(notes)))

RECURSIVE midiDuration(_)
midiDuration(midi) ==
  IF midi = <<>> THEN 0
  ELSE Max(NotesEnd(Head(midi).notes), midiDuration(Tail(midi)))

(***************************************************************************)
(* parseTimeToSeconds                                                       *)
(***************************************************************************)
DigitChars == <<"0", "1", "2", "3", "4", "5", "6", "7", "8", "9">>

IsDigit(c) == \E i \in 1..10 : DigitChars[i] = c

DigitVal(c) == (CHOOSE i \in 1..10 : DigitChars[i] = c) - 1

\* number of leading digit characters of s
RECURSIVE DigitRun(_)
DigitRun(s) ==
  IF s = <<>> \/ ~IsDigit(Head(s)) THEN 0 ELSE 1 + DigitRun(Tail(s))

\* value of a sequence of digit characters
RECURSIVE DigitsValue(_, _)
DigitsValue(s, acc) ==
  IF s = <<>> THEN acc ELSE DigitsValue(Tail(s), acc * 10 + DigitVal(Head(s)))

NaN == [nan |-> TRUE, v |-> 0]
Finite(n) == [nan |-> FALSE, v |-> n]

\* x || 0 for a parse result
OrZero(x) == IF x.nan THEN 0 ELSE x.v

\* parseInt(s, 10) in whole units: optional sign, then the longest digit prefix.
parseInt(s) ==
  LET neg == s # <<>> /\ Head(s) = "-"
      r == IF neg THEN Tail(s) ELSE s
      n == DigitRun(r)
      val == DigitsValue(SubSeq(r, 1, n), 0)
  IN IF n = 0 THEN NaN ELSE Finite(IF neg THEN 0 - val ELSE val)

\* parseFloat(s) in tenths: optional sign, digits, optional "." and digits;
\* the first fractional digit is kept.
parseFloat(s) ==
  LET neg == s # <<>> /\ Head(s) = "-"
      r == IF neg THEN Tail(s) ELSE s
      n1 == DigitRun(r)
      hasDot == Len(r) > n1 /\ r[n1 + 1] = "."
      frac == IF hasDot THEN SubSeq(r, n1 + 2, Len(r)) ELSE <<>>
      n2 == DigitRun(frac)
      whole == DigitsValue(SubSeq(r, 1, n1), 0)
      tenth == IF n2 > 0 THEN DigitVal(frac[1]) ELSE 0
      val == whole * 10 + tenth
  IN IF n1 = 0 /\ n2 = 0 THEN NaN ELSE Finite(IF neg THEN 0 - val ELSE val)

\* position of the first ":" of s, 0 when there is none (indexOf + 1)
RECURSIVE indexOfColon(_, _)
indexOfColon(s, k) ==
  IF k > Len(s) THEN 0
  ELSE IF s[k] = ":" THEN k
  ELSE indexOfColon(s, k + 1)

\* parts[0] and parts[1] of s.split(':'), for s with a colon at position c
SplitLeft(s, c) == SubSeq(s, 1, c - 1)

SplitRight(s, c) ==
  LET rest == SubSeq(s, c + 1, Len(s))
      c2 == indexOfColon(rest, 1)
  IN IF c2 = 0 THEN rest ELSE SubSeq(rest, 1, c2 - 1)

parseTimeToSeconds_secondsOnly(timeStr) ==
  IF timeStr = <<>> THEN 0
  ELSE LET c == indexOfColon(timeStr, 1)
       IN IF c > 0
          THEN OrZero(parseFloat(SplitRight(timeStr, c)))
          ELSE OrZero(parseFloat(timeStr))

parseTimeToSeconds(timeStr) ==
  IF timeStr = <<>> THEN 0
  ELSE LET c == indexOfColon(timeStr, 1)
       IN IF c > 0
          THEN OrZero(parseInt(SplitLeft(timeStr, c))) * 60 * 10
               + OrZero(parseFloat(SplitRight(timeStr, c)))
          ELSE OrZero(parseFloat(timeStr))


(***************************************************************************)
(* analyzeMidi: one scan of every note for the pitch range.                 *)
(***************************************************************************)
RECURSIVE LowestIn(_, _)
LowestIn(notes, low) ==
  IF notes = <<>> THEN low
  ELSE LowestIn(Tail(notes), IF Head(notes).midi < low THEN Head(notes).midi ELSE low)

RECURSIVE HighestIn(_, _)
HighestIn(notes, high) ==
  IF notes = <<>> THEN high
  ELSE HighestIn(Tail(notes), IF Head(notes).midi > high THEN Head(notes).midi ELSE high)

RECURSIVE lowestNote(_, _)
lowestNote(midi, low) ==
  IF midi = <<>> THEN low ELSE lowestNote(Tail(midi), LowestIn(Head(midi).notes, low))

RECURSIVE highestNote(_, _)
highestNote(midi, high) ==
  IF midi = <<>> THEN high ELSE highestNote(Tail(midi), HighestIn(Head(midi).notes, high))

analyzeMidi(midi) ==
  [duration |-> midiDuration(midi),
   trackCount |-> Len(midi),
   lowest |-> lowestNote(midi, 1270),
   highest |-> highestNote(midi, 0)]

NoAnalysis == [duration |-> 0 - 1, trackCount |-> 0 - 1, lowest |-> 0 - 1, highest |-> 0 - 1]

(***************************************************************************)
(* extractMidiSections                                                      *)
(***************************************************************************)
RECURSIVE copyNotes_notRezeroed(_, _, _)
copyNotes_notRezeroed(notes, startTime, endTime) ==
  IF notes = <<>> THEN <<>>
  ELSE LET note == Head(notes)
           rest == copyNotes_notRezeroed(Tail(notes), startTime, endTime)
       IN IF note.time >= startTime /\ note.time < endTime
          THEN <<note>> \o rest
          ELSE rest

RECURSIVE copyNotes_eitherBound(_, _, _)
copyNotes_eitherBound(notes, startTime, endTime) ==
  IF notes = <<>> THEN <<>>
  ELSE LET note == Head(notes)
           rest == copyNotes_eitherBound(Tail(notes), startTime, endTime)
       IN IF note.time >= startTime \/ note.time < endTime
          THEN <<Note(note.midi, note.time - startTime, note.duration, note.velocity)>> \o rest
          ELSE rest

\* the notes of one track that fall in [startTime, endTime), re-zeroed
RECURSIVE copyNotes(_, _, _)
copyNotes(notes, startTime, endTime) ==
  IF notes = <<>> THEN <<>>
  ELSE LET note == Head(notes)
           rest == copyNotes(Tail(notes), startTime, endTime)
       IN IF note.time >= startTime /\ note.time < endTime
          THEN <<Note(note.midi, note.time - startTime, note.duration, note.velocity)>> \o rest
          ELSE rest

sectionMidiOf(originalMidi, startTime, endTime) ==
  [i \in 1..Len(originalMidi) |->
     Track(originalMidi[i].name, copyNotes(originalMidi[i].notes, startTime, endTime))]

sectionStart(section) == parseTimeToSeconds(section.startTime)

sectionEnd(section, duration) ==
  IF section.endTime # <<>> THEN parseTimeToSeconds(section.endTime) ELSE duration

extractMidiSections(originalMidi, sections) ==
  [i \in 1..Len(sections) |->
     [section |-> sections[i],
      midi |-> sectionMidiOf(originalMidi, sectionStart(sections[i]),
                             sectionEnd(sections[i], midiDuration(originalMidi))),
      startTime |-> sectionStart(sections[i]),
      endTime |-> sectionEnd(sections[i], midiDuration(originalMidi))]]

(***************************************************************************)
(* midiToTextRepresentation and buildUserPrompt.  The text is kept as the   *)
(* structure it prints: the header figures and, per track with notes, its   *)
(* position, name, note count and sampled notes.                            *)
(***************************************************************************)
DefaultMaxNotes == 100

Min(a, b) == IF a <= b THEN a ELSE b

RECURSIVE trackListing(_, _, _)
trackListing(midi, idx, maxNotes) ==
  IF idx > Len(midi) THEN <<>>
  ELSE IF Len(midi[idx].notes) = 0 THEN trackListing(midi, idx + 1, maxNotes)
  ELSE <<[track |-> idx,
          name |-> midi[idx].name,
          notes |-> Len(midi[idx].notes),
          sample |-> SubSeq(midi[idx].notes, 1, Min(Len(midi[idx].notes), maxNotes))]>>
       \o trackListing(midi, idx + 1, maxNotes)

midiToTextRepresentation_uncapped(midi, maxNotes) ==
  [duration |-> midiDuration(midi),
   tracks |-> Len(midi),
   listing |-> trackListing(midi, 1, DefaultMaxNotes)]

\* lines 208-232
midiToTextRepresentation(midi, maxNotes) ==
  [duration |-> midiDuration(midi),
   tracks |-> Len(midi),
   listing |-> trackListing(midi, 1, maxNotes)]

buildUserPrompt(an, midiRepresentation, instruments, sectionName) ==
  [section |-> sectionName,
   analysis |-> an,
   instruments |-> instruments,
   content |-> midiRepresentation]

(***************************************************************************)
(* parseAIResponseToMidi                                                    *)
(*                                                                          *)
(* A response text is modelled by what JSON.parse makes of it:              *)
(*   kind        "unparsable" (JSON.parse throws), "null" or "obj"          *)
(*   instruments [t, items]: t is "absent", "other" (not an array) or       *)
(*               "array"                                                    *)
(* an instrument entry is [t ("obj" | "null"), name, notes: [t, items]] and *)
(* a note entry is [t ("obj" | "prim" | "null"), midi, time, duration,      *)
(* velocity] with JSON values in the four fields.                           *)
(***************************************************************************)
DefaultDuration == 5
DefaultVelocity == 8

Entry(m, t, d, v) == [t |-> "obj", midi |-> m, time |-> t, duration |-> d, velocity |-> v]
NullEntry == [t |-> "null", midi |-> Absent, time |-> Absent, duration |-> Absent, velocity |-> Absent]
PrimEntry == [t |-> "prim", midi |-> Absent, time |-> Absent, duration |-> Absent, velocity |-> Absent]

Inst(n, ns) == [t |-> "obj", name |-> n, notes |-> [t |-> "array", items |-> ns]]
InstNoNotes(n, k) == [t |-> "obj", name |-> n, notes |-> [t |-> k, items |-> <<>>]]
NullInst == [t |-> "null", name |-> "", notes |-> [t |-> "absent", items |-> <<>>]]

Resp(insts) == [kind |-> "obj", instruments |-> [t |-> "array", items |-> insts]]
RespNoInstruments(k) == [kind |-> "obj", instruments |-> [t |-> k, items |-> <<>>]]
Unparsable == [kind |-> "unparsable", instruments |-> [t |-> "absent", items |-> <<>>]]
NullResp == [kind |-> "null", instruments |-> [t |-> "absent", items |-> <<>>]]

\* typeof note.midi === 'number' && typeof note.time === 'number'
admits(entry) == IsNumber(entry.midi) /\ IsNumber(entry.time)

noteOfEntry(entry) ==
  Note(entry.midi.v,
       entry.time.v,
       IF Truthy(entry.duration) THEN entry.duration ELSE Num(DefaultDuration),
       IF Truthy(entry.velocity) THEN entry.velocity ELSE Num(DefaultVelocity))

\* inst.notes.forEach: reading a field of a null entry throws
RECURSIVE forEachNote(_, _, _)
forEachNote(track, entries, k) ==
  IF k > Len(entries) THEN [track |-> track, thrown |-> FALSE]
  ELSE IF entries[k].t = "null" THEN [track |-> track, thrown |-> TRUE]
  ELSE IF admits(entries[k])
       THEN forEachNote(addNote(track, noteOfEntry(entries[k])), entries, k + 1)
  ELSE forEachNote(track, entries, k + 1)

trackName(inst) == IF inst.name # "" THEN inst.name ELSE "AI Generated"

\* response.instruments.forEach: reading a field of a null instrument throws
RECURSIVE forEachInstrument(_, _, _)
forEachInstrument(baseMidi, insts, k) ==
  IF k > Len(insts) THEN [midi |-> baseMidi, thrown |-> FALSE]
  ELSE IF insts[k].t = "null" THEN [midi |-> baseMidi, thrown |-> TRUE]
  ELSE IF insts[k].notes.t = "array"
       THEN LET r == forEachNote(Track(trackName(insts[k]), <<>>), insts[k].notes.items, 1)
            IN IF r.thrown
               THEN [midi |-> addTrack(baseMidi, r.track), thrown |-> TRUE]
               ELSE forEachInstrument(addTrack(baseMidi, r.track), insts, k + 1)
  ELSE forEachInstrument(baseMidi, insts, k + 1)

\* the try block: what the base document holds when the block ends or throws
tryParse(response, baseMidi) ==
  IF response.kind # "obj" THEN [midi |-> baseMidi, thrown |-> TRUE]
  ELSE IF response.instruments.t = "array"
       THEN forEachInstrument(baseMidi, response.instruments.items, 1)
  ELSE [midi |-> baseMidi, thrown |-> FALSE]

catchParse_rethrow(r) == [midi |-> r.midi, raised |-> r.thrown]

\* the catch block: the error is logged and not thrown again
catchParse(r) == [midi |-> r.midi, raised |-> FALSE]

\* the base document as the function leaves it, and whether an error escapes
parseAIResponseToMidi(response, baseMidi) == catchParse(tryParse(response, baseMidi))

(***************************************************************************)
(* The merge loop of the sectioned branch: each parsed track is appended to *)
(* the output document with its notes offset by the section's start.        *)
(***************************************************************************)
offsetNotes_noOffset(notes, startTime) ==
  [i \in 1..Len(notes) |->
     Note(notes[i].midi, notes[i].time, notes[i].duration, notes[i].velocity)]

offsetNotes(notes, startTime) ==
  [i \in 1..Len(notes) |->
     Note(notes[i].midi, notes[i].time + startTime, notes[i].duration, notes[i].velocity)]

RECURSIVE mergeTracks_reversed(_, _, _)
mergeTracks_reversed(outMidi, tracks, startTime) ==
  IF tracks = <<>> THEN outMidi
  ELSE addTrack(mergeTracks_reversed(outMidi, Tail(tracks), startTime),
                Track(Head(tracks).name, offsetNotes(Head(tracks).notes, startTime)))

RECURSIVE mergeTracks(_, _, _)
mergeTracks(outMidi, tracks, startTime) ==
  IF tracks = <<>> THEN outMidi
  ELSE mergeTracks(addTrack(outMidi, Track(Head(tracks).name,
                                            offsetNotes(Head(tracks).notes, startTime))),
                   Tail(tracks), startTime)

(***************************************************************************)
(* Inputs: the source documents, requests and responses the model draws.    *)
(***************************************************************************)
T0 == <<"0">>
T1 == <<"1">>
T2 == <<"2">>
T4 == <<"4">>
TBad == <<"a">>

Section(label, startTime, endTime, mode, instruments) ==
  [label |-> label, startTime |-> startTime, endTime |-> endTime,
   mode |-> mode, instruments |-> instruments]

SectionChoices ==
  { Section("A", T0, T2, "all", <<"bass">>),
    Section("B", T2, <<>>, "none", <<"bass">>),
    Section("C", <<>>, <<>>, "all", <<"bass">>),
    Section("D", T2, T4, "manual", <<"drums">>),
    Section("E", T0, T2, "all", <<>>),
    Section("F", T4, TBad, "manual", <<"bass">>),
    Section("G", T1, T2, "manual", <<>>),
    Section("H", <<>>, <<>>, "none", <<>>) }

SectionLists == UNION { [1..n -> SectionChoices] : n \in 0..MaxSections }

InstrumentLists == { <<>>, <<"bass", "drums">> }

SourceChoices ==
  { << Track("Lead", << Note(600, 0, Num(5), Num(8)), Note(640, 25, Num(5), Num(8)) >>),
       Track("", << Note(480, 10, Num(10), Num(5)) >>) >>,
    << Track("Lead", <<>>) >>,
    << Track("Lead", << Note(600, 0, Num(10), Num(8)), Note(620, 30, Num(0), Num(8)) >>) >> }

Responses ==
  { Unparsable,
    NullResp,
    RespNoInstruments("absent"),
    Resp(<< NullInst, Inst("Bass", << Entry(Num(400), Num(0), Null, Null) >>) >>),
    Resp(<< Inst("Bass", << Entry(Num(400), Num(20), Num(10), Num(9)) >>) >>),
    Resp(<< Inst("", << Entry(Str(2), Num(0), Absent, Absent),
                        Entry(Num(600), Num(5), Num(0), Num(0)) >>),
            Inst("Drums", << Entry(Num(360), Num(0), Num(0 - 10), Num(15)) >>) >>),
    Resp(<< Inst("Bass", << Entry(Num(400), Num(0), Num(5), Num(8)),
                            NullEntry,
                            Entry(Num(420), Num(10), Num(5), Num(8)) >>),
            Inst("Drums", << Entry(Num(360), Num(0), Num(5), Num(8)) >>) >>),
    Resp(<< Inst("Keys", << Entry(Num(2000), Num(0), Num(5), Num(8)),
                            Entry(Num(605), Num(10), Str(3), Num(8)),
                            PrimEntry,
                            Entry(Num(600), Absent, Num(5), Num(8)) >>),
            InstNoNotes("Pad", "absent") >>) }

(***************************************************************************)
(* State of one composeWithAI run.                                          *)
(***************************************************************************)
VARIABLES
  apiKey,       \* is process.env.OPENAI_API_KEY set
  fileOk,       \* can request.midiPath be read and parsed as MIDI
  source,       \* the document stored at request.midiPath
  request,      \* [instruments, sections]
  pc,           \* position in composeWithAI
  analysis,     \* result of analyzeMidi, NoAnalysis before
  outputMidi,   \* the output document being built
  sectionMidis, \* result of extractMidiSections
  idx,          \* position of the for loop in sectionMidis
  inflight,     \* log positions of the callOpenAI calls not yet settled
  log,          \* one entry per unit the loop has reached
  outputFile,   \* [exists, midi]: what is stored at outputPath
  error,        \* message of the error thrown to the caller, "" if none
  \* the compose route and the player
  job,          \* the CompositionJob row of the job id, exists FALSE if none
  reqs,         \* per POST request: [pc, response, invoked]
  outputs,      \* the requests that wrote outputs/<jobId>__composed.mid, in order
  player,       \* MidiPlayer: [loaded, jobAtLoad, hasOriginal, hasEnhanced]
  \* the compose form
  selectedInstrumentIds,
  customInstruments,
  formSections, \* the form's `sections` state
  \* midiToTextRepresentation called on its own
  sumMidi,      \* the document summarised
  sumMaxNotes,  \* the cap
  summaries     \* the results of the calls made so far

composerVars == <<apiKey, fileOk, source, request, pc, analysis, outputMidi,
                  sectionMidis, idx, inflight, log, outputFile, error>>

routeVars == <<job, reqs, outputs, player>>

formVars == <<selectedInstrumentIds, customInstruments, formSections>>

summaryVars == <<sumMidi, sumMaxNotes, summaries>>

\* what a composeWithAI run does not touch
extVars == <<routeVars, formVars, summaryVars>>

vars == <<composerVars, extVars>>

Requests == 1..MaxRequests

\* a row of the CompositionJob table; outputPath is null until it is set
Job(status, outputPath, errorMessage) ==
  [exists |-> TRUE, status |-> status, outputPath |-> outputPath,
   errorMessage |-> errorMessage]

\* findUnique finds no row
NoJob == [exists |-> FALSE, status |-> "", outputPath |-> Null, errorMessage |-> ""]

IdleRequest == [pc |-> "idle", response |-> "", invoked |-> FALSE]

JsFalse == [t |-> "bool", v |-> 0]

NoPlayer == [loaded |-> FALSE, jobAtLoad |-> NoJob, hasOriginal |-> FALSE,
             hasEnhanced |-> JsFalse, error |-> ""]

\* no compose request has been made and no player is open
RouteIdle ==
  /\ job = NoJob
  /\ reqs = [r \in Requests |-> IdleRequest]
  /\ outputs = <<>>
  /\ player = NoPlayer

\* no form is open
FormIdle ==
  /\ selectedInstrumentIds = {}
  /\ customInstruments = {}
  /\ formSections = <<>>

SummaryIdle ==
  /\ sumMidi = <<>>
  /\ sumMaxNotes = 0
  /\ summaries = <<>>

NoPrompt == buildUserPrompt(NoAnalysis, midiToTextRepresentation(<<>>, DefaultMaxNotes), <<>>, "")

LogEntry(unit, state, prompt, response, before, after) ==
  [unit |-> unit, state |-> state, prompt |-> prompt, response |-> response,
   before |-> before, after |-> after]

Init ==
  /\ apiKey \in BOOLEAN
  /\ fileOk \in BOOLEAN
  /\ source \in SourceChoices
  /\ request \in [instruments : InstrumentLists, sections : SectionLists]
  /\ pc = "start"
  /\ analysis = NoAnalysis
  /\ outputMidi = <<>>
  /\ sectionMidis = <<>>
  /\ idx = 1
  /\ inflight = {}
  /\ log = <<>>
  /\ outputFile = [exists |-> FALSE, midi |-> <<>>]
  /\ error = ""
  /\ RouteIdle
  /\ FormIdle
  /\ SummaryIdle

Fail(msg) ==
  /\ pc' = "failed"
  /\ error' = msg

CheckApiKey_unchecked ==
  /\ pc = "start"
  /\ pc' = "analyze"
  /\ UNCHANGED <<apiKey, fileOk, source, request, analysis, outputMidi,
                 sectionMidis, idx, inflight, log, outputFile, error>>
  /\ UNCHANGED extVars

\* lines 383-387
CheckApiKey ==
  /\ pc = "start"
  /\ IF apiKey
     THEN pc' = "analyze" /\ UNCHANGED error
     ELSE Fail("OPENAI_API_KEY environment variable is not set")
  /\ UNCHANGED <<apiKey, fileOk, source, request, analysis, outputMidi,
                 sectionMidis, idx, inflight, log, outputFile>>
  /\ UNCHANGED extVars

\* line 390
AnalyzeMidi ==
  /\ pc = "analyze"
  /\ IF fileOk
     THEN /\ analysis' = analyzeMidi(source)
          /\ pc' = "load"
          /\ UNCHANGED error
     ELSE /\ Fail("read")
          /\ UNCHANGED analysis
  /\ UNCHANGED <<apiKey, fileOk, source, request, outputMidi,
                 sectionMidis, idx, inflight, log, outputFile>>
  /\ UNCHANGED extVars

\* lines 393-394: the file is read a second time
LoadOriginal ==
  /\ pc = "load"
  /\ IF fileOk
     THEN /\ outputMidi' = source
          /\ pc' = "decide"
          /\ UNCHANGED error
     ELSE /\ Fail("read")
          /\ UNCHANGED outputMidi
  /\ UNCHANGED <<apiKey, fileOk, source, request, analysis,
                 sectionMidis, idx, inflight, log, outputFile>>
  /\ UNCHANGED extVars

hasTimes_both(s) == s.startTime # <<>> /\ s.endTime # <<>>

\* lines 397-399: request.sections.filter((s) => s.startTime || s.endTime)
hasTimes(s) == s.startTime # <<>> \/ s.endTime # <<>>

sectionsWithTimes_unfiltered(sections) == sections

sectionsWithTimes(sections) == SelectSeq(sections, hasTimes)

loopPc_leavesEarly(i, units) == "write"

\* where the loop goes once it stands at position i
loopPc(i, units) == IF i > Len(units) THEN "write" ELSE "loop"

\* lines 401-403 and 449; extractMidiSections reads the file a third time
Decide ==
  /\ pc = "decide"
  /\ IF Len(sectionsWithTimes(request.sections)) > 0
     THEN IF fileOk
          THEN /\ sectionMidis' = extractMidiSections(source, sectionsWithTimes(request.sections))
               /\ pc' = "loop"
               /\ UNCHANGED error
          ELSE /\ Fail("read")
               /\ UNCHANGED sectionMidis
     ELSE /\ pc' = "whole"
          /\ UNCHANGED <<sectionMidis, error>>
  /\ UNCHANGED <<apiKey, fileOk, source, request, analysis, outputMidi,
                 idx, inflight, log, outputFile>>
  /\ UNCHANGED extVars

\* lines 407 and 411-415: is this unit passed over with `continue`
instrumentsForSection(section, instruments) ==
  IF section.mode = "all" THEN instruments ELSE section.instruments

skipsUnit_ignoresMode(section, instruments) ==
  \/ Len(section.instruments) = 0
  \/ Len(instrumentsForSection(section, instruments)) = 0

skipsUnit(section, instruments) ==
  \/ section.mode = "none"
  \/ Len(section.instruments) = 0
  \/ Len(instrumentsForSection(section, instruments)) = 0

\* lines 405-415, a unit that is passed over
SkipUnit ==
  /\ pc = "loop"
  /\ idx <= Len(sectionMidis)
  /\ skipsUnit(sectionMidis[idx].section, request.instruments)
  /\ log' = Append(log, LogEntry(idx, "skipped", NoPrompt, Unparsable,
                                 Len(outputMidi), Len(outputMidi)))
  /\ idx' = idx + 1
  /\ pc' = loopPc(idx + 1, sectionMidis)
  /\ UNCHANGED <<apiKey, fileOk, source, request, analysis, outputMidi,
                 sectionMidis, inflight, outputFile, error>>
  /\ UNCHANGED extVars

pcAfterCall_noAwait(branch) == branch

\* the loop does not go on while callOpenAI is awaited (line 428, line 462)
pcAfterCall(branch) == IF branch = "loop" THEN "await" ELSE "awaitWhole"

CallSection_summarisesOutput ==
  /\ pc = "loop"
  /\ idx <= Len(sectionMidis)
  /\ ~skipsUnit(sectionMidis[idx].section, request.instruments)
  /\ LET unit == sectionMidis[idx]
         midiText == midiToTextRepresentation(outputMidi, DefaultMaxNotes)
         userPrompt == buildUserPrompt(analysis, midiText,
                         instrumentsForSection(unit.section, request.instruments),
                         unit.section.label)
     IN log' = Append(log, LogEntry(idx, "pending", userPrompt, Unparsable,
                                    Len(outputMidi), Len(outputMidi)))
  /\ inflight' = inflight \cup {Len(log) + 1}
  /\ pc' = pcAfterCall("loop")
  /\ UNCHANGED <<apiKey, fileOk, source, request, analysis, outputMidi,
                 sectionMidis, idx, outputFile, error>>
  /\ UNCHANGED extVars

\* lines 417-428: the prompt is built and callOpenAI is issued
CallSection ==
  /\ pc = "loop"
  /\ idx <= Len(sectionMidis)
  /\ ~skipsUnit(sectionMidis[idx].section, request.instruments)
  /\ LET unit == sectionMidis[idx]
         midiText == midiToTextRepresentation(unit.midi, DefaultMaxNotes)
         userPrompt == buildUserPrompt(analysis, midiText,
                         instrumentsForSection(unit.section, request.instruments),
                         unit.section.label)
     IN log' = Append(log, LogEntry(idx, "pending", userPrompt, Unparsable,
                                    Len(outputMidi), Len(outputMidi)))
  /\ inflight' = inflight \cup {Len(log) + 1}
  /\ pc' = pcAfterCall("loop")
  /\ UNCHANGED <<apiKey, fileOk, source, request, analysis, outputMidi,
                 sectionMidis, idx, outputFile, error>>
  /\ UNCHANGED extVars

SetLast(l, state, response, after) ==
  [l EXCEPT ![Len(l)] = [@ EXCEPT !.state = state, !.response = response, !.after = after]]

\* lines 428-447: the call returns, the response is parsed into a fresh
\* document and its tracks are merged at the section's start
ReturnSection ==
  /\ pc = "await"
  /\ \E response \in Responses :
       LET sectionResult == parseAIResponseToMidi(response, <<>>)
           merged == mergeTracks(outputMidi, sectionResult.midi, sectionMidis[idx].startTime)
       IN IF sectionResult.raised
          THEN /\ Fail("parse")
               /\ log' = SetLast(log, "failed", response, Len(outputMidi))
               /\ UNCHANGED <<outputMidi, idx>>
          ELSE /\ outputMidi' = merged
               /\ log' = SetLast(log, "merged", response, Len(merged))
               /\ idx' = idx + 1
               /\ pc' = loopPc(idx + 1, sectionMidis)
               /\ UNCHANGED error
  /\ inflight' = inflight \ {Len(log)}
  /\ UNCHANGED <<apiKey, fileOk, source, request, analysis,
                 sectionMidis, outputFile>>
  /\ UNCHANGED extVars

\* lines 451-462: the whole piece as one unit
CallWhole ==
  /\ pc = "whole"
  /\ LET midiText == midiToTextRepresentation(outputMidi, DefaultMaxNotes)
         userPrompt == buildUserPrompt(analysis, midiText, request.instruments,
                                       "Full Composition")
     IN log' = Append(log, LogEntry(0, "pending", userPrompt, Unparsable,
                                    Len(outputMidi), Len(outputMidi)))
  /\ inflight' = inflight \cup {Len(log) + 1}
  /\ pc' = pcAfterCall("whole")
  /\ UNCHANGED <<apiKey, fileOk, source, request, analysis, outputMidi,
                 sectionMidis, idx, outputFile, error>>
  /\ UNCHANGED extVars

\* lines 462-463: the response is parsed straight into the output document
ReturnWhole ==
  /\ pc = "awaitWhole"
  /\ \E response \in Responses :
       LET result == parseAIResponseToMidi(response, outputMidi)
       IN /\ outputMidi' = result.midi
          /\ IF result.raised
             THEN /\ Fail("parse")
                  /\ log' = SetLast(log, "failed", response, Len(result.midi))
             ELSE /\ pc' = "write"
                  /\ log' = SetLast(log, "merged", response, Len(result.midi))
                  /\ UNCHANGED error
  /\ inflight' = inflight \ {Len(log)}
  /\ UNCHANGED <<apiKey, fileOk, source, request, analysis,
                 sectionMidis, idx, outputFile>>
  /\ UNCHANGED extVars

CallFails_retry ==
  /\ pc \in {"await", "awaitWhole"}
  /\ pc' = IF pc = "await" THEN "loop" ELSE "whole"
  /\ log' = SetLast(log, "failed", Unparsable, Len(outputMidi))
  /\ inflight' = {}
  /\ UNCHANGED <<apiKey, fileOk, source, request, analysis, outputMidi,
                 sectionMidis, idx, outputFile, error>>
  /\ UNCHANGED extVars

\* lines 329-340: the request to the service fails and callOpenAI rejects
CallFails ==
  /\ pc \in {"await", "awaitWhole"}
  /\ Fail("openai")
  /\ log' = SetLast(log, "failed", Unparsable, Len(outputMidi))
  /\ inflight' = {}
  /\ UNCHANGED <<apiKey, fileOk, source, request, analysis, outputMidi,
                 sectionMidis, idx, outputFile>>
  /\ UNCHANGED extVars

WriteOutput_notDone ==
  /\ pc = "write"
  /\ outputFile' = [exists |-> TRUE, midi |-> outputMidi]
  /\ pc' = "write"
  /\ UNCHANGED <<apiKey, fileOk, source, request, analysis, outputMidi,
                 sectionMidis, idx, inflight, log, error>>
  /\ UNCHANGED extVars

\* line 467
WriteOutput ==
  /\ pc = "write"
  /\ outputFile' = [exists |-> TRUE, midi |-> outputMidi]
  /\ pc' = "done"
  /\ UNCHANGED <<apiKey, fileOk, source, request, analysis, outputMidi,
                 sectionMidis, idx, inflight, log, error>>
  /\ UNCHANGED extVars

\* the file store: the upload at request.midiPath stops being readable
\* while the request runs (lines 106, 153 and 393 each read it)
SourceLost ==
  /\ pc \in {"analyze", "load", "decide"}
  /\ fileOk
  /\ fileOk' = FALSE
  /\ UNCHANGED <<apiKey, source, request, pc, analysis, outputMidi,
                 sectionMidis, idx, inflight, log, outputFile, error>>
  /\ UNCHANGED extVars

Next ==
  \/ SourceLost
  \/ CheckApiKey
  \/ AnalyzeMidi
  \/ LoadOriginal
  \/ Decide
  \/ SkipUnit
  \/ CallSection
  \/ ReturnSection
  \/ CallWhole
  \/ ReturnWhole
  \/ CallFails
  \/ WriteOutput

Spec == Init /\ [][Next]_vars

\* every continuation of the request is run once it is ready, and every
\* call to the service settles
SpecLive == Init /\ [][Next]_vars /\ WF_vars(Next)

(***************************************************************************)
(* The same run started on requests of one section whose start and end are  *)
(* drawn from a wider set of time strings.                                  *)
(***************************************************************************)
T130 == <<"1", ":", "3", "0">>
T15 == <<"1", "5">>
TAbc == <<"a", "b", "c">>
T1p5 == <<"1", ".", "5">>
TColon3 == <<":", "3">>
T0c02 == <<"0", ":", "0", "2">>
TNeg1 == <<"-", "1">>
T1Colon == <<"1", ":">>
T1ColonA == <<"1", ":", "a">>

TimeStrings ==
  { <<>>, T0, T1, T2, T4, TBad, T130, T15, TAbc, T1p5, TColon3, T0c02, TNeg1,
    T1Colon, T1ColonA }

InitWindows ==
  /\ apiKey = TRUE
  /\ fileOk = TRUE
  /\ source \in SourceChoices
  /\ \E st \in TimeStrings, en \in TimeStrings, mode \in {"all", "none"} :
       request = [instruments |-> <<"bass", "drums">>,
                  sections |-> << Section("W", st, en, mode, <<"bass">>) >>]
  /\ pc = "start"
  /\ analysis = NoAnalysis
  /\ outputMidi = <<>>
  /\ sectionMidis = <<>>
  /\ idx = 1
  /\ inflight = {}
  /\ log = <<>>
  /\ outputFile = [exists |-> FALSE, midi |-> <<>>]
  /\ error = ""
  /\ RouteIdle
  /\ FormIdle
  /\ SummaryIdle

SpecWindows == InitWindows /\ [][Next]_vars

TypeOK ==
  /\ pc \in {"start", "analyze", "load", "decide", "loop", "await", "whole",
             "awaitWhole", "write", "done", "failed"}
  /\ idx \in 1..(MaxSections + 1)
  /\ inflight \subseteq 1..(MaxSections + 1)

\* no composeWithAI run has been started
ComposerIdle ==
  /\ apiKey = TRUE
  /\ fileOk = TRUE
  /\ source = <<>>
  /\ request = [instruments |-> <<>>, sections |-> <<>>]
  /\ pc = "start"
  /\ analysis = NoAnalysis
  /\ outputMidi = <<>>
  /\ sectionMidis = <<>>
  /\ idx = 1
  /\ inflight = {}
  /\ log = <<>>
  /\ outputFile = [exists |-> FALSE, midi |-> <<>>]
  /\ error = ""

(***************************************************************************)
(* midiToTextRepresentation called on its own, with a cap below, at and     *)
(* above the note counts.  track.notes is kept in time order by the MIDI    *)
(* library, so the documents drawn have their notes in time order.          *)
(***************************************************************************)
NotePool ==
  { Note(600, 0, Num(5), Num(8)), Note(640, 5, Num(5), Num(8)), Note(670, 10, Num(10), Num(6)) }

InTimeOrder(notes) ==
  \A i \in 1..(Len(notes) - 1) : notes[i].time <= notes[i + 1].time

NoteLists ==
  { notes \in UNION { [1..n -> NotePool] : n \in 0..MaxTrackNotes } : InTimeOrder(notes) }

SummaryDocs ==
  { << Track("Lead", a) >> : a \in NoteLists }
  \cup { << Track("Lead", a), Track("Keys", b) >> : a \in NoteLists, b \in NoteLists }

InitSummary ==
  /\ ComposerIdle
  /\ RouteIdle
  /\ FormIdle
  /\ sumMidi \in SummaryDocs
  /\ sumMaxNotes \in 0..(MaxTrackNotes + 1)
  /\ summaries = <<>>

\* one call of midiToTextRepresentation(midi, maxNotes)
Summarize ==
  /\ Len(summaries) < 2
  /\ summaries' = Append(summaries, midiToTextRepresentation(sumMidi, sumMaxNotes))
  /\ UNCHANGED <<sumMidi, sumMaxNotes, composerVars, routeVars, formVars>>

NextSummary == Summarize

SpecSummary == InitSummary /\ [][NextSummary]_vars

(***************************************************************************)
(* POST /api/jobs/:jobId/compose, GET /api/jobs/:jobId and the player.      *)
(* A request's steps are the pieces of the handler between its awaits;      *)
(* requests for the same job run interleaved at those points.               *)
(* composeWithAI is taken by its two outcomes: it returns, having written   *)
(* the output file as its last statement, or it throws.                     *)
(***************************************************************************)
OutputPathValue == Str(1)

InitRoute ==
  /\ ComposerIdle
  /\ FormIdle
  /\ SummaryIdle
  /\ job \in {NoJob, Job("PENDING", Null, "")}
  /\ reqs = [r \in Requests |-> IdleRequest]
  /\ outputs = <<>>
  /\ player = NoPlayer

alreadyComplete_never(j) == FALSE

\* job.status === 'COMPLETE' && job.outputPath
alreadyComplete(j) == j.status = "COMPLETE" /\ Truthy(j.outputPath)

\* findUnique and the two early returns
FindJob(r) ==
  /\ reqs[r].pc = "idle"
  /\ reqs' = [reqs EXCEPT ![r] =
                IF ~job.exists THEN [@ EXCEPT !.pc = "done", !.response = "404"]
                ELSE IF alreadyComplete(job) THEN [@ EXCEPT !.pc = "done", !.response = "url"]
                ELSE [@ EXCEPT !.pc = "found"]]
  /\ UNCHANGED <<job, outputs, player, composerVars, formVars, summaryVars>>

\* update: status PROCESSING, errorMessage null
MarkProcessing(r) ==
  /\ reqs[r].pc = "found"
  /\ job' = [job EXCEPT !.status = "PROCESSING", !.errorMessage = ""]
  /\ reqs' = [reqs EXCEPT ![r].pc = "processing"]
  /\ UNCHANGED <<outputs, player, composerVars, formVars, summaryVars>>

\* mkdir, then composeWithAI is called
StartCompose(r) ==
  /\ reqs[r].pc = "processing"
  /\ reqs' = [reqs EXCEPT ![r].pc = "composing", ![r].invoked = TRUE]
  /\ UNCHANGED <<job, outputs, player, composerVars, formVars, summaryVars>>

\* composeWithAI returns: the output file has been written
ComposeReturns(r) ==
  /\ reqs[r].pc = "composing"
  /\ outputs' = Append(outputs, r)
  /\ reqs' = [reqs EXCEPT ![r].pc = "composed"]
  /\ UNCHANGED <<job, player, composerVars, formVars, summaryVars>>

\* composeWithAI throws
ComposeThrows(r) ==
  /\ reqs[r].pc = "composing"
  /\ reqs' = [reqs EXCEPT ![r].pc = "caught"]
  /\ UNCHANGED <<job, outputs, player, composerVars, formVars, summaryVars>>

\* update: status COMPLETE, outputPath; the download URL is returned
MarkComplete(r) ==
  /\ reqs[r].pc = "composed"
  /\ job' = [job EXCEPT !.status = "COMPLETE", !.outputPath = OutputPathValue]
  /\ reqs' = [reqs EXCEPT ![r].pc = "done", ![r].response = "url"]
  /\ UNCHANGED <<outputs, player, composerVars, formVars, summaryVars>>

\* the catch block: update status FAILED, errorMessage; 500 is returned
MarkFailed(r) ==
  /\ reqs[r].pc = "caught"
  /\ job' = [job EXCEPT !.status = "FAILED", !.errorMessage = "Compose failed"]
  /\ reqs' = [reqs EXCEPT ![r].pc = "done", ![r].response = "500"]
  /\ UNCHANGED <<outputs, player, composerVars, formVars, summaryVars>>

\* the body GET /api/jobs/:jobId answers with: it has no outputPath
\* property, so reading jobData.outputPath gives undefined
getJob(j) == [status |-> j.status, errorMessage |-> j.errorMessage, outputPath |-> Absent]

\* jobData.status === 'COMPLETE' && jobData.outputPath
enhancedFlag(jobData) ==
  IF jobData.status = "COMPLETE" THEN jobData.outputPath ELSE JsFalse

\* MidiPlayer.loadMidiFile up to setHasEnhanced
LoadPlayer ==
  /\ ~player.loaded
  /\ player' = IF ~job.exists
               THEN [NoPlayer EXCEPT !.loaded = TRUE, !.error = "Failed to load job info"]
               ELSE [loaded |-> TRUE, jobAtLoad |-> job, hasOriginal |-> TRUE,
                     hasEnhanced |-> enhancedFlag(getJob(job)), error |-> ""]
  /\ UNCHANGED <<job, reqs, outputs, composerVars, formVars, summaryVars>>

NextRoute ==
  \/ \E r \in Requests : FindJob(r)
  \/ \E r \in Requests : MarkProcessing(r)
  \/ \E r \in Requests : StartCompose(r)
  \/ \E r \in Requests : ComposeReturns(r)
  \/ \E r \in Requests : ComposeThrows(r)
  \/ \E r \in Requests : MarkComplete(r)
  \/ \E r \in Requests : MarkFailed(r)
  \/ LoadPlayer

SpecRoute == InitRoute /\ [][NextRoute]_vars

(***************************************************************************)
(* ComposeForm: the instrument checkboxes, the custom instrument field,     *)
(* the section list and Reset.  Instrument lists are kept as sets; the      *)
(* form starts with the first MaxFormSections of its five sections.         *)
(***************************************************************************)
DEFAULT_INSTRUMENTS == {"drums", "bass"}

\* the ids addCustomInstrument can make
CustomIds == {"custom_kalimba"}

FormSection(name, mode, instruments) ==
  [name |-> name, mode |-> mode, instruments |-> instruments]

AllDefaultSections ==
  << FormSection("Intro", "all", {}), FormSection("Verse", "manual", {}),
     FormSection("Chorus", "manual", {}), FormSection("Bridge", "manual", {}),
     FormSection("Outro", "all", {}) >>

defaultSections == SubSeq(AllDefaultSections, 1, Min(5, MaxFormSections))

InitForm ==
  /\ ComposerIdle
  /\ RouteIdle
  /\ SummaryIdle
  /\ selectedInstrumentIds = {}
  /\ customInstruments = {}
  /\ formSections = defaultSections

instrumentOptions == DEFAULT_INSTRUMENTS \cup customInstruments

normalizeSectionsForInstruments(prev, ids) ==
  [i \in 1..Len(prev) |->
     IF prev[i].mode = "manual"
     THEN [prev[i] EXCEPT !.instruments = @ \cap ids]
     ELSE prev[i]]

\* onChange of an instrument checkbox
ToggleInstrument(id) ==
  /\ id \in instrumentOptions
  /\ LET next == IF id \in selectedInstrumentIds
                 THEN selectedInstrumentIds \ {id}
                 ELSE selectedInstrumentIds \cup {id}
     IN /\ selectedInstrumentIds' = next
        /\ formSections' = normalizeSectionsForInstruments(formSections, next)
  /\ UNCHANGED <<customInstruments, composerVars, routeVars, summaryVars>>

addCustomInstrument(id) ==
  /\ id \in CustomIds \ customInstruments
  /\ customInstruments' = customInstruments \cup {id}
  /\ selectedInstrumentIds' = selectedInstrumentIds \cup {id}
  /\ UNCHANGED <<formSections, composerVars, routeVars, summaryVars>>

updateSection(prev, i, field, value) ==
  [prev EXCEPT ![i] = IF field = "mode" THEN [@ EXCEPT !.mode = value]
                      ELSE [@ EXCEPT !.instruments = value]]

\* onChange of a section's mode radio
SetSectionMode(i, mode) ==
  /\ i \in 1..Len(formSections)
  /\ formSections' = updateSection(formSections, i, "mode", mode)
  /\ UNCHANGED <<selectedInstrumentIds, customInstruments, composerVars, routeVars, summaryVars>>

\* onChange of a checkbox of a manual section; one is shown per selected id
ToggleSectionInstrument(i, id) ==
  /\ i \in 1..Len(formSections)
  /\ formSections[i].mode = "manual"
  /\ id \in selectedInstrumentIds
  /\ LET next == IF id \in formSections[i].instruments
                 THEN formSections[i].instruments \ {id}
                 ELSE formSections[i].instruments \cup {id}
     IN formSections' = updateSection(formSections, i, "instruments", next)
  /\ UNCHANGED <<selectedInstrumentIds, customInstruments, composerVars, routeVars, summaryVars>>

addSection ==
  /\ Len(formSections) < MaxFormSections
  /\ formSections' = Append(formSections, FormSection("Other", "manual", {}))
  /\ UNCHANGED <<selectedInstrumentIds, customInstruments, composerVars, routeVars, summaryVars>>

\* the Remove button is disabled when one section is left
removeSection(i) ==
  /\ Len(formSections) > 1
  /\ i \in 1..Len(formSections)
  /\ formSections' = [k \in 1..(Len(formSections) - 1) |->
                        IF k < i THEN formSections[k] ELSE formSections[k + 1]]
  /\ UNCHANGED <<selectedInstrumentIds, customInstruments, composerVars, routeVars, summaryVars>>

\* the Reset button
ResetForm ==
  /\ customInstruments' = {}
  /\ selectedInstrumentIds' = {}
  /\ formSections' = defaultSections
  /\ UNCHANGED <<composerVars, routeVars, summaryVars>>

NextForm ==
  \/ \E id \in DEFAULT_INSTRUMENTS \cup CustomIds : ToggleInstrument(id)
  \/ \E id \in CustomIds : addCustomInstrument(id)
  \/ \E i \in 1..MaxFormSections, mode \in {"all", "manual", "none"} : SetSectionMode(i, mode)
  \/ \E i \in 1..MaxFormSections, id \in DEFAULT_INSTRUMENTS \cup CustomIds :
       ToggleSectionInstrument(i, id)
  \/ addSection
  \/ \E i \in 1..MaxFormSections : removeSection(i)
  \/ ResetForm

SpecForm == InitForm /\ [][NextForm]_vars

(***************************************************************************)
(* Properties.                                                              *)
(***************************************************************************)
Entries == 1..Len(log)

\* the section a log entry of the sectioned branch is about
SectionAt(k) == sectionMidis[log[k].unit].section

StartAt(k) == sectionMidis[log[k].unit].startTime

IsSectionEntry(k) == log[k].unit >= 1

WasCalled(k) == log[k].state # "skipped"

\* the tracks the output document gained while entry k was handled
AddedTracks(k) == SubSeq(outputMidi, log[k].before + 1, log[k].after)

\* C1: in sectioned processing a section of mode `all` is called with the
\* request's full instrument list (when that list is non-empty), whatever
\* the section's own instrument array holds.
C1_AllModeUsesFullList ==
  \A k \in Entries :
    (IsSectionEntry(k) /\ SectionAt(k).mode = "all" /\ request.instruments # <<>>)
      => (WasCalled(k) /\ log[k].prompt.instruments = request.instruments)

HasNoNotes(midi) == \A i \in 1..Len(midi) : midi[i].notes = <<>>

\* C3: a time-bounded section whose extracted sub-document holds no note is
\* skipped: no generative call and no track for it.
C3_EmptySectionSkipped ==
  \A k \in Entries :
    (IsSectionEntry(k) /\ HasNoNotes(sectionMidis[log[k].unit].midi))
      => (~WasCalled(k) /\ log[k].after = log[k].before)

\* C4: every note merged for a section is the parsed note with its start time
\* raised by the section's start; pitch, duration and velocity as parsed.
C4_MergedAtSectionStart ==
  \A k \in Entries :
    (IsSectionEntry(k) /\ log[k].state = "merged") =>
      LET parsed == parseAIResponseToMidi(log[k].response, <<>>).midi
          added == AddedTracks(k)
      IN /\ Len(added) = Len(parsed)
         /\ \A j \in 1..Len(parsed) :
              /\ Len(added[j].notes) = Len(parsed[j].notes)
              /\ \A n \in 1..Len(parsed[j].notes) :
                   /\ added[j].notes[n].time = parsed[j].notes[n].time + StartAt(k)
                   /\ added[j].notes[n].midi = parsed[j].notes[n].midi
                   /\ added[j].notes[n].duration = parsed[j].notes[n].duration
                   /\ added[j].notes[n].velocity = parsed[j].notes[n].velocity

HasNoteAt(k, t) ==
  \E j \in 1..Len(AddedTracks(k)) :
    \E n \in 1..Len(AddedTracks(k)[j].notes) : AddedTracks(k)[j].notes[n].time = t

C4_Witness ==
  /\ pc = "done"
  /\ \E k1, k2 \in Entries :
       /\ k1 < k2
       /\ IsSectionEntry(k1) /\ IsSectionEntry(k2)
       /\ log[k1].state = "merged" /\ log[k2].state = "merged"
       /\ StartAt(k1) = 20 /\ StartAt(k2) = 0
       /\ HasNoteAt(k1, 40)
       /\ HasNoteAt(k2, 20)

\* what the claims expect of a response: the entries with numeric `midi` and
\* `time`, per instrument with a `notes` array, in order
IsAdmissible(entry) ==
  entry.t = "obj" /\ entry.midi.t = "num" /\ entry.time.t = "num"

HasNotesArray(inst) == inst.t = "obj" /\ inst.notes.t = "array"

ExpectedTracks(response) ==
  IF response.kind = "obj" /\ response.instruments.t = "array"
  THEN LET insts == SelectSeq(response.instruments.items, HasNotesArray)
       IN [j \in 1..Len(insts) |-> SelectSeq(insts[j].notes.items, IsAdmissible)]
  ELSE <<>>

IsAnswered(k) == log[k].state = "merged" /\ log[k].response.kind = "obj"

AllInstrumentsAreObjects(response) ==
  \A i \in 1..Len(response.instruments.items) : response.instruments.items[i].t = "obj"

OffsetAt(k) == IF IsSectionEntry(k) THEN StartAt(k) ELSE 0

\* C5: a note entry is admitted exactly when its `midi` and `time` are
\* numbers, and an inadmissible entry of any shape (null included) drops only
\* itself: the admissible entries around it and the later instruments are all
\* in the result, in order.
C5_BadEntryDropsOnlyItself ==
  \A k \in Entries :
    (IsAnswered(k) /\ AllInstrumentsAreObjects(log[k].response)) =>
      LET expected == ExpectedTracks(log[k].response)
          added == AddedTracks(k)
      IN /\ Len(added) = Len(expected)
         /\ \A j \in 1..Len(expected) :
              /\ Len(added[j].notes) = Len(expected[j])
              /\ \A n \in 1..Len(expected[j]) :
                   /\ added[j].notes[n].midi = expected[j][n].midi.v
                   /\ added[j].notes[n].time = expected[j][n].time.v + OffsetAt(k)

\* C6: an unparsable response adds no track for its unit and raises nothing:
\* the loop goes on to the remaining units and the output is still written.
C6_UnparsableAddsNothing ==
  /\ error # "parse"
  /\ \A k \in Entries :
       (log[k].response.kind = "unparsable" /\ log[k].state # "pending") =>
         /\ log[k].after = log[k].before
         /\ (log[k].state = "failed" => error = "openai")
         /\ (log[k].state = "merged" /\ IsSectionEntry(k) /\ pc \in {"loop", "await"})
              => idx > log[k].unit
         /\ (log[k].state = "merged" /\ pc = "done") =>
              /\ outputFile.exists
              /\ outputFile.midi = outputMidi
              /\ (IsSectionEntry(k) => Len(log) = Len(sectionMidis))

C6_Witness ==
  /\ pc = "done"
  /\ outputFile.exists
  /\ \E k1, k2 \in Entries :
       /\ k1 < k2
       /\ log[k1].state = "merged" /\ log[k1].response.kind = "unparsable"
       /\ log[k2].state = "merged" /\ log[k2].after > log[k2].before

\* the tracks of the output document that the parser / merger added
GeneratedTracks ==
  IF pc \in {"start", "analyze", "load"} THEN <<>>
  ELSE SubSeq(outputMidi, Len(source) + 1, Len(outputMidi))

\* C7: every note added to the output document has an integer pitch in
\* [0,127] (in tenths: a multiple of 10 in 0..1270).
C7_PitchInRange ==
  \A j \in 1..Len(GeneratedTracks) :
    \A n \in 1..Len(GeneratedTracks[j].notes) :
      LET m == GeneratedTracks[j].notes[n].midi
      IN m % 10 = 0 /\ m >= 0 /\ m <= 1270

ExpectedDuration(entry) ==
  IF entry.duration.t = "num" /\ entry.duration.v > 0
  THEN entry.duration ELSE Num(5)

ExpectedVelocity(entry) ==
  IF entry.velocity.t = "num" /\ entry.velocity.v >= 0 /\ entry.velocity.v <= 10
  THEN entry.velocity ELSE Num(8)

HasNullEntry(response) ==
  \E i \in 1..Len(response.instruments.items) :
    \/ response.instruments.items[i].t = "null"
    \/ \E n \in 1..Len(response.instruments.items[i].notes.items) :
         response.instruments.items[i].notes.items[n].t = "null"

\* C8: a merged note's duration is the response's when that is a number > 0
\* and 0.5 otherwise; its velocity is the response's when that is a number in
\* [0,1] and 0.8 otherwise; so every merged note has duration > 0 and
\* velocity in [0,1].
C8_DurationVelocityDefaults ==
  /\ \A j \in 1..Len(GeneratedTracks) :
       \A n \in 1..Len(GeneratedTracks[j].notes) :
         LET note == GeneratedTracks[j].notes[n]
         IN /\ note.duration.t = "num" /\ note.duration.v > 0
            /\ note.velocity.t = "num" /\ note.velocity.v >= 0 /\ note.velocity.v <= 10
  /\ \A k \in Entries :
       (IsAnswered(k) /\ ~HasNullEntry(log[k].response)) =>
         LET expected == ExpectedTracks(log[k].response)
             added == AddedTracks(k)
         IN \A j \in 1..Len(expected) :
              \A n \in 1..Len(expected[j]) :
                /\ added[j].notes[n].duration = ExpectedDuration(expected[j][n])
                /\ added[j].notes[n].velocity = ExpectedVelocity(expected[j][n])

SomeSectionHasTime ==
  \E i \in 1..Len(request.sections) :
    request.sections[i].startTime # <<>> \/ request.sections[i].endTime # <<>>

\* C9: the request is processed section by section exactly when some section
\* has a non-empty start or end time; otherwise there is exactly one call,
\* labelled "Full Composition", with the request's full instrument list and
\* the summary of the whole source document.
C9_SectionedIffSomeTime ==
  /\ (pc \in {"loop", "await"} \/ \E k \in Entries : IsSectionEntry(k)) => SomeSectionHasTime
  /\ (pc \in {"whole", "awaitWhole"} \/ \E k \in Entries : ~IsSectionEntry(k))
       => ~SomeSectionHasTime
  /\ (~SomeSectionHasTime /\ pc \in {"awaitWhole", "write", "done"}) =>
       /\ Len(log) = 1
       /\ log[1].unit = 0
       /\ log[1].prompt.section = "Full Composition"
       /\ log[1].prompt.instruments = request.instruments
       /\ log[1].prompt.content = midiToTextRepresentation(source, DefaultMaxNotes)
  /\ (~SomeSectionHasTime /\ pc = "whole") => log = <<>>
  /\ ~SomeSectionHasTime => Len(log) <= 1

C9_Witness ==
  /\ pc = "done"
  /\ Len(log) = 1
  /\ log[1].unit = 0
  /\ log[1].state = "merged"
  /\ \E i \in 1..Len(request.sections) : request.sections[i].mode = "none"
  /\ \E i \in 1..Len(request.sections) : request.sections[i].mode = "all"

\* C10: at most one generative call is outstanding at any time: a call is
\* issued only when every earlier call has returned and been merged.
C10_OneCallAtATime ==
  /\ Cardinality(inflight) <= 1
  /\ \A k \in Entries : log[k].state = "pending" => (k = Len(log) /\ inflight = {k})
  /\ inflight # {} => pc \in {"await", "awaitWhole"}

C10_Witness ==
  /\ Len(log) >= 2
  /\ inflight = {Len(log)}
  /\ \E k \in 1..(Len(log) - 1) : log[k].state = "merged" /\ log[k].after > log[k].before

\* C11: the output file is written only after every unit has completed; a
\* run that fails (missing credential, unreadable source, a failed
\* generative call in any unit) has written nothing to the output path.
C11_NoWriteOnFailure ==
  /\ pc = "failed" => (~outputFile.exists /\ outputFile.midi = <<>>)
  /\ outputFile.exists =>
       /\ pc = "done"
       /\ error = ""
       /\ outputFile.midi = outputMidi
       /\ \A k \in Entries : log[k].state \in {"skipped", "merged"}
       /\ IF sectionMidis # <<>>
          THEN Len(log) = Len(sectionMidis) /\ \A k \in Entries : log[k].unit = k
          ELSE Len(log) = 1 /\ log[1].unit = 0

C11_Witness ==
  /\ pc = "failed"
  /\ error = "openai"
  /\ Len(log) = 2
  /\ log[1].state = "merged"
  /\ log[1].after > log[1].before
  /\ log[2].state = "failed"
  /\ Len(outputMidi) > Len(source)
  /\ ~outputFile.exists

KeyMessage == "OPENAI_API_KEY environment variable is not set"

\* C12: with the credential missing the run fails with the configuration
\* error before the source is read or analysed and before any generative
\* call; the check happens once, ahead of the unit loop.
C12_MissingKeyFailsFirst ==
  /\ (~apiKey /\ pc # "start") =>
       /\ pc = "failed"
       /\ error = KeyMessage
       /\ analysis = NoAnalysis
       /\ outputMidi = <<>>
       /\ sectionMidis = <<>>
       /\ log = <<>>
       /\ inflight = {}
       /\ ~outputFile.exists
  /\ error = KeyMessage => (~apiKey /\ log = <<>> /\ analysis = NoAnalysis)

C12_Witness ==
  /\ ~apiKey
  /\ fileOk
  /\ pc = "failed"
  /\ error = KeyMessage
  /\ request.instruments # <<>>
  /\ \E i \in 1..Len(request.sections) :
       request.sections[i].startTime # <<>> /\ request.sections[i].mode = "all"

\* C13: a failed generative call is fatal and never retried: it is the last
\* call of the run, its error is the one handed to the caller, and no unit is
\* called twice.
C13_FailedCallIsFatal ==
  /\ \A k \in Entries :
       log[k].state = "failed" =>
         (k = Len(log) /\ pc = "failed" /\ error = "openai" /\ inflight = {})
  /\ \A k1, k2 \in Entries : k1 < k2 => log[k1].unit < log[k2].unit
  /\ error = "openai" => (log # <<>> /\ log[Len(log)].state = "failed")

C13_Witness ==
  /\ pc = "failed"
  /\ error = "openai"
  /\ Len(log) = 1
  /\ log[1].state = "failed"
  /\ log[1].unit = 1
  /\ Len(sectionMidis) = 2
  /\ ~skipsUnit(sectionMidis[2].section, request.instruments)

\* the windows extractMidiSections was given, after it has run
Units == 1..Len(sectionMidis)

\* C14: every note of an extracted sub-document has 0 <= time < e - s and is
\* a note of the same source track with time + s as its source time and the
\* same pitch, duration and velocity; nothing from outside [s, e) is there.
C14_ExtractedNotesInWindow ==
  \A i \in Units :
    LET u == sectionMidis[i]
    IN /\ Len(u.midi) = Len(source)
       /\ \A j \in 1..Len(u.midi) :
            /\ u.midi[j].name = source[j].name
            /\ \A n \in 1..Len(u.midi[j].notes) :
                 LET note == u.midi[j].notes[n]
                 IN /\ 0 <= note.time
                    /\ note.time < u.endTime - u.startTime
                    /\ note.time + u.startTime >= u.startTime
                    /\ note.time + u.startTime < u.endTime
                    /\ \E m \in 1..Len(source[j].notes) :
                         /\ source[j].notes[m].time = note.time + u.startTime
                         /\ source[j].notes[m].midi = note.midi
                         /\ source[j].notes[m].duration = note.duration
                         /\ source[j].notes[m].velocity = note.velocity

C14_Witness ==
  /\ Len(sectionMidis) = 1
  /\ sectionMidis[1].startTime = 15
  /\ sectionMidis[1].endTime = 40
  /\ Len(sectionMidis[1].midi) = 2
  /\ Len(sectionMidis[1].midi[1].notes) = 1
  /\ sectionMidis[1].midi[1].notes[1].time = 10
  /\ sectionMidis[1].midi[2].notes = <<>>

\* C15: a section whose parsed start is >= its parsed end (an unparsable,
\* non-empty end parses to 0) is extracted without error into a sub-document
\* whose tracks all have zero notes.
C15_EmptyWindowExtractsNothing ==
  /\ \A i \in Units :
       sectionMidis[i].startTime >= sectionMidis[i].endTime =>
         /\ Len(sectionMidis[i].midi) = Len(source)
         /\ HasNoNotes(sectionMidis[i].midi)
  /\ pc \in {"loop", "await", "write", "done"} =>
       Len(sectionMidis) = Len(SelectSeq(request.sections, hasTimes))
  /\ error = "read" => ~fileOk

C15_Witness ==
  /\ Len(sectionMidis) = 1
  /\ sectionMidis[1].section.startTime = T0
  /\ sectionMidis[1].section.endTime = TAbc
  /\ sectionMidis[1].startTime = 0
  /\ sectionMidis[1].endTime = 0
  /\ Len(source) = 2
  /\ HasNoNotes(sectionMidis[1].midi)
  /\ pc = "done"

\* the seconds (in tenths) each time string of the model stands for
ExpectedSeconds(timeStr) ==
  CASE timeStr = <<>> -> 0
    [] timeStr = T0 -> 0
    [] timeStr = T1 -> 10
    [] timeStr = T2 -> 20
    [] timeStr = T4 -> 40
    [] timeStr = TBad -> 0
    [] timeStr = T130 -> 900
    [] timeStr = T15 -> 150
    [] timeStr = TAbc -> 0
    [] timeStr = T1p5 -> 15
    [] timeStr = TColon3 -> 30
    [] timeStr = T0c02 -> 20
    [] timeStr = TNeg1 -> 0 - 10
    [] timeStr = T1Colon -> 600
    [] timeStr = T1ColonA -> 600

SourceIsPrefixOf(midi) ==
  /\ Len(midi) >= Len(source)
  /\ SubSeq(midi, 1, Len(source)) = source

\* C17: the source tracks are a prefix of the output document, in order and
\* unchanged; generated tracks are only appended and no step changes or
\* removes a track that is already there.
C17_SourceTracksArePrefix ==
  /\ [](/\ outputMidi # <<>> => SourceIsPrefixOf(outputMidi)
        /\ outputFile.exists => SourceIsPrefixOf(outputFile.midi))
  /\ [][/\ Len(outputMidi') >= Len(outputMidi)
        /\ \A i \in 1..Len(outputMidi) : outputMidi'[i] = outputMidi[i]]_vars

C17_Witness ==
  /\ pc = "done"
  /\ Len(source) = 2
  /\ Len(log) = 2
  /\ log[1].state = "merged" /\ log[1].after > log[1].before
  /\ log[2].state = "merged" /\ log[2].after > log[2].before
  /\ Len(outputFile.midi) >= 4

\* C18: the notes appended for a section with window [s, e) lie in [s, e) on
\* the output timeline, whatever times the response holds.
C18_MergedNotesInsideWindow ==
  \A k \in Entries :
    (IsSectionEntry(k) /\ log[k].state = "merged") =>
      \A j \in 1..Len(AddedTracks(k)) :
        \A n \in 1..Len(AddedTracks(k)[j].notes) :
          /\ AddedTracks(k)[j].notes[n].time >= sectionMidis[log[k].unit].startTime
          /\ AddedTracks(k)[j].notes[n].time < sectionMidis[log[k].unit].endTime

ExpectedNames(response) ==
  IF response.kind = "obj" /\ response.instruments.t = "array"
  THEN LET insts == SelectSeq(response.instruments.items, HasNotesArray)
       IN [j \in 1..Len(insts) |->
             IF insts[j].name = "" THEN "AI Generated" ELSE insts[j].name]
  ELSE <<>>

\* the output document rebuilt from the source and the logged responses alone
RECURSIVE Replay(_, _)
Replay(k, out) ==
  IF k > Len(log) THEN out
  ELSE IF log[k].state # "merged" THEN Replay(k + 1, out)
  ELSE LET parsed == parseAIResponseToMidi(log[k].response, <<>>).midi
       IN Replay(k + 1,
                 out \o [j \in 1..Len(parsed) |->
                           Track(parsed[j].name,
                                 [n \in 1..Len(parsed[j].notes) |->
                                    Note(parsed[j].notes[n].midi,
                                         parsed[j].notes[n].time + OffsetAt(k),
                                         parsed[j].notes[n].duration,
                                         parsed[j].notes[n].velocity)])])

\* C19: generated tracks are merged in order: the tracks of an earlier
\* section come before those of a later one, the tracks of one section keep
\* the order of the response's instruments, and the output document is
\* determined by the source, the request and the responses.
C19_MergedInOrder ==
  /\ \A k \in Entries :
       /\ log[k].before <= log[k].after
       /\ log[k].before = IF k = 1 THEN Len(source) ELSE log[k - 1].after
       /\ log[k].after <= Len(outputMidi)
  /\ (log # <<>> /\ outputMidi # <<>>) => log[Len(log)].after = Len(outputMidi)
  /\ \A k1, k2 \in Entries : k1 < k2 => log[k1].unit < log[k2].unit
  /\ \A i \in Units :
       sectionMidis[i].section = SelectSeq(request.sections, hasTimes)[i]
  /\ \A k \in Entries :
       log[k].state = "merged" =>
         /\ Len(AddedTracks(k)) <= Len(ExpectedNames(log[k].response))
         /\ \A j \in 1..Len(AddedTracks(k)) :
              AddedTracks(k)[j].name = ExpectedNames(log[k].response)[j]
  /\ pc \in {"write", "done"} => outputMidi = Replay(1, source)
  /\ pc = "done" => outputFile.midi = Replay(1, source)

C19_Witness ==
  /\ pc = "done"
  /\ Len(log) = 2
  /\ log[1].unit = 1 /\ log[1].state = "merged" /\ log[1].after = log[1].before + 2
  /\ log[2].unit = 2 /\ log[2].state = "merged" /\ log[2].after > log[2].before
  /\ AddedTracks(1)[1].name # AddedTracks(1)[2].name
  /\ log[1].response # log[2].response

\* the prompt of a unit as the source and the request alone give it
ExpectedPrompt(k) ==
  IF IsSectionEntry(k)
  THEN LET section == SelectSeq(request.sections, hasTimes)[log[k].unit]
           s == ExpectedSeconds(section.startTime)
           e == IF section.endTime = <<>> THEN midiDuration(source)
                ELSE ExpectedSeconds(section.endTime)
       IN [section |-> section.label,
           analysis |-> analyzeMidi(source),
           instruments |-> IF section.mode = "all" THEN request.instruments
                           ELSE section.instruments,
           content |-> midiToTextRepresentation(sectionMidiOf(source, s, e), DefaultMaxNotes)]
  ELSE [section |-> "Full Composition",
        analysis |-> analyzeMidi(source),
        instruments |-> request.instruments,
        content |-> midiToTextRepresentation(source, DefaultMaxNotes)]

\* C20: the prompt sent for a unit is a function of the source document and
\* the request only; the tracks generated for earlier units, and so the
\* responses to them, never enter a later unit's summary or analysis.
C20_PromptIgnoresEarlierResponses ==
  \A k \in Entries : WasCalled(k) => log[k].prompt = ExpectedPrompt(k)

C20_Witness ==
  /\ Len(log) = 2
  /\ log[1].state = "merged"
  /\ log[1].after > log[1].before
  /\ WasCalled(2)
  /\ log[2].prompt.content.listing # <<>>
  /\ Len(outputMidi) > Len(source)

\* the states of the request's life, as the design names them
Phase(p) ==
  CASE p = "start" -> "Idle"
    [] p \in {"analyze", "load", "decide"} -> "Analyzing"
    [] p \in {"loop", "await"} -> "Sectioned"
    [] p \in {"whole", "awaitWhole"} -> "WholePiece"
    [] p = "write" -> "Merging"
    [] p = "done" -> "Done"
    [] p = "failed" -> "Failed"

PhaseSteps ==
  { <<"Idle", "Analyzing">>, <<"Analyzing", "Sectioned">>,
    <<"Analyzing", "WholePiece">>, <<"Sectioned", "Merging">>,
    <<"WholePiece", "Merging">>, <<"Merging", "Done">> }
  \cup { <<ph, "Failed">> : ph \in {"Idle", "Analyzing", "Sectioned", "WholePiece", "Merging"} }
  \cup { <<ph, ph>> : ph \in {"Idle", "Analyzing", "Sectioned", "WholePiece",
                              "Merging", "Done", "Failed"} }

\* C22: a request goes Idle, Analyzing, then Sectioned or WholePiece, then
\* Merging, then Done, with Failed reachable from every state before Done;
\* when every call to the service returns or fails the request ends Done
\* with the output written or Failed with an error raised, never both; the
\* analysis is made once, before any unit is handled.
C22_RequestLifecycle ==
  /\ [][(<<Phase(pc), Phase(pc')>> \in PhaseSteps)]_vars
  /\ [][analysis' # analysis => (Phase(pc) = "Analyzing" /\ log = <<>>)]_vars
  /\ [](/\ pc = "done" => (outputFile.exists /\ error = "")
        /\ pc = "failed" => (error # "" /\ ~outputFile.exists)
        /\ ~(outputFile.exists /\ error # "")
        /\ log # <<>> => Phase(pc) \notin {"Idle", "Analyzing"})
  /\ <>(pc \in {"done", "failed"})

C22_Witness ==
  /\ pc = "done"
  /\ outputFile.exists
  /\ error = ""
  /\ Len(log) = 2
  /\ log[1].state = "merged"
  /\ log[2].state = "merged"
  /\ analysis = analyzeMidi(source)

\* C23: every instrument entry of a parsable response gives exactly one new
\* track, named from its `name` or "AI Generated"; an entry whose `notes` is
\* missing or not an array gives a track with no notes.
C23_OneTrackPerInstrument ==
  \A k \in Entries :
    (/\ IsAnswered(k)
     /\ log[k].response.instruments.t = "array"
     /\ AllInstrumentsAreObjects(log[k].response)
     /\ ~HasNullEntry(log[k].response)) =>
      LET insts == log[k].response.instruments.items
          added == AddedTracks(k)
      IN /\ Len(added) = Len(insts)
         /\ \A j \in 1..Len(insts) :
              /\ added[j].name = (IF insts[j].name # "" THEN insts[j].name
                                  ELSE "AI Generated")
              /\ insts[j].notes.t # "array" => added[j].notes = <<>>

\* C24: a section with a start and no end has the source's total duration
\* as its window end and keeps every source note whose time is >= its
\* start; in general every source note whose time lies in [s, e) is kept.
C24_OpenEndKeepsLaterNotes ==
  \A i \in Units :
    LET u == sectionMidis[i]
        open == u.section.endTime = <<>>
    IN /\ open => u.endTime = midiDuration(source)
       /\ Len(u.midi) = Len(source)
       /\ \A j \in 1..Len(source) :
            \A m \in 1..Len(source[j].notes) :
              LET note == source[j].notes[m]
              IN (note.time >= u.startTime /\ (open \/ note.time < u.endTime)) =>
                   \E n \in 1..Len(u.midi[j].notes) :
                     /\ u.midi[j].notes[n].time = note.time - u.startTime
                     /\ u.midi[j].notes[n].midi = note.midi
                     /\ u.midi[j].notes[n].duration = note.duration
                     /\ u.midi[j].notes[n].velocity = note.velocity

IsTimed(s) == s.startTime # <<>> \/ s.endTime # <<>>

\* C25: in sectioned processing a section with neither a start nor an end
\* is never a unit, whatever its mode and instruments: no call is made for
\* it and it adds no track; the sections with a time are the units, in
\* request order.
C25_UntimedSectionIsNoUnit ==
  /\ \A i \in Units : IsTimed(sectionMidis[i].section)
  /\ sectionMidis # <<>> =>
       [i \in Units |-> sectionMidis[i].section] = SelectSeq(request.sections, IsTimed)
  /\ \A k \in Entries :
       IsSectionEntry(k) => (log[k].unit = k /\ IsTimed(SectionAt(k)))
  /\ (pc = "done" /\ sectionMidis # <<>>) =>
       /\ Len(log) = Len(SelectSeq(request.sections, IsTimed))
       /\ Len(outputMidi) = log[Len(log)].after
       /\ log[1].before = Len(source)
       /\ \A k \in 2..Len(log) : log[k].before = log[k - 1].after

C25_Witness ==
  /\ pc = "done"
  /\ Len(request.sections) = 2
  /\ ~IsTimed(request.sections[1])
  /\ request.sections[1].mode = "all"
  /\ request.sections[1].instruments # <<>>
  /\ request.instruments # <<>>
  /\ Len(log) = 1
  /\ log[1].state = "merged"
  /\ log[1].prompt.section = request.sections[2].label
  /\ log[1].after > log[1].before

\* C21: the summary lists, for each track with at least one note, in track
\* order, its full note count and exactly its first min(count, cap) notes in
\* the order the track holds them, and nothing for a track without notes;
\* the same document and cap give the same summary.
C21_SummaryListsFirstNotes ==
  \A k \in 1..Len(summaries) :
    LET listing == summaries[k].listing
        withNotes == { i \in 1..Len(sumMidi) : Len(sumMidi[i].notes) >= 1 }
    IN /\ summaries[k] = summaries[1]
       /\ Len(listing) = Cardinality(withNotes)
       /\ \A m \in 1..Len(listing) :
            /\ listing[m].track \in withNotes
            /\ m > 1 => listing[m - 1].track < listing[m].track
            /\ LET notes == sumMidi[listing[m].track].notes
                   shown == IF Len(notes) <= sumMaxNotes THEN Len(notes) ELSE sumMaxNotes
               IN /\ listing[m].notes = Len(notes)
                  /\ Len(listing[m].sample) = shown
                  /\ \A n \in 1..shown : listing[m].sample[n] = notes[n]

C21_Witness ==
  /\ Len(summaries) = 2
  /\ Len(sumMidi) = 2
  /\ sumMidi[1].notes = <<>>
  /\ Len(sumMidi[2].notes) = 3
  /\ sumMaxNotes = 2
  /\ Len(summaries[2].listing) = 1
  /\ summaries[2].listing[1].track = 2
  /\ summaries[2].listing[1].notes = 3
  /\ Len(summaries[2].listing[1].sample) = 2

IsCompleteJob == job.exists /\ job.status = "COMPLETE" /\ job.outputPath.t = "str"

\* C26: a compose request that finds the job COMPLETE with an output path
\* answers with the download URL, invokes no composer and leaves the job
\* row and the output file as they were; every such request answers alike.
C26_CompleteJobAnswersUrl ==
  [][\A r \in Requests :
       (IsCompleteJob /\ reqs[r].pc = "idle" /\ reqs'[r] # reqs[r]) =>
         /\ reqs'[r] = [pc |-> "done", response |-> "url", invoked |-> FALSE]
         /\ job' = job
         /\ outputs' = outputs]_vars

C26_Witness ==
  \E r1, r2 \in Requests :
    /\ reqs[r1] = [pc |-> "done", response |-> "url", invoked |-> TRUE]
    /\ reqs[r2] = [pc |-> "done", response |-> "url", invoked |-> FALSE]
    /\ outputs = <<r1>>
    /\ IsCompleteJob

\* C27: once the job is COMPLETE with an output path it stays COMPLETE,
\* whatever compose requests follow and however they interleave.
C27_CompleteStaysComplete ==
  [][IsCompleteJob => job'.status = "COMPLETE"]_vars

\* C28: at most one composition run is in progress for a job: two
\* overlapping compose requests never both run the composer.
C28_OneComposerRun ==
  Cardinality({ r \in Requests : reqs[r].pc = "composing" }) <= 1

\* C29: whatever was done in the form, every section of mode `manual` lists
\* only instruments that are currently selected.
C29_ManualListsAreSelected ==
  \A i \in 1..Len(formSections) :
    formSections[i].mode = "manual" =>
      formSections[i].instruments \subseteq selectedInstrumentIds

\* C30: a player loaded while the job is COMPLETE with an output path has
\* its enhanced track marked available.
C30_PlayerMarksEnhanced ==
  (/\ player.loaded
   /\ player.jobAtLoad.exists
   /\ player.jobAtLoad.status = "COMPLETE"
   /\ player.jobAtLoad.outputPath.t = "str") => Truthy(player.hasEnhanced)

=============================================================================
